---- MODULE Spec2Model ----
(***************************************************************************)
(* Model of Masterminds/formenc, package encoding/form (encoding.go):      *)
(* Unmarshal of url.Values into a tagged struct through validators,        *)
(* setters and built-in coercion, and the struct-tag parser.               *)
(*                                                                         *)
(* Text (Go string) is a sequence of one-character strings, so that        *)
(* splitting, prefix tests and numeric parsing work on characters.         *)
(***************************************************************************)
EXTENDS Integers, Sequences, FiniteSets, TLC

VARIABLES
    o,          \* Unmarshal: the shape of the receiver o
    rt,         \* Unmarshal: index of o's struct type in StructTypes, 0 if none
    rec,        \* Unmarshal: the struct o points to, one value per field
    rec0,       \* the struct as the caller passed it in (never written)
    v,          \* Unmarshal: the url.Values, a function from keys to value lists
    pending,    \* walk: the keys the range loop has not visited yet
    verrs,      \* walk: the validation errors collected so far
    calls,      \* per key, the hook and coercion calls made for it, in order
    result,     \* what Unmarshal returned, NoResult while it runs
    pc,         \* "call" before Unmarshal, "walk" inside the loop, "done" after
    str,        \* parseTag: the raw tag handed to parseTag
    segs,       \* parseTag: the comma-free segments str was written from
    tag         \* parseTag: the *Tag returned, or NoTag before the call

decVars == <<o, rt, rec, rec0, v, pending, verrs, calls, result, pc>>
tagVars == <<str, segs, tag>>
vars == <<o, rt, rec, rec0, v, pending, verrs, calls, result, pc, str, segs, tag>>

(***************************************************************************)
(* Bounds                                                                  *)
(***************************************************************************)
\* Largest number of comma-separated segments in a raw tag.
MaxSegs == 3
\* Largest number of keys in the submitted url.Values.
MaxKeys == 2

(***************************************************************************)
(* Text constants                                                          *)
(***************************************************************************)
Comma == ","
Empty == <<>>
TxtDash == <<"-">>
TxtPlus == <<"+">>
TxtOmitempty == <<"o","m","i","t","e","m","p","t","y">>
TxtPrefixEq == <<"p","r","e","f","i","x","=">>
TxtSuffixEq == <<"s","u","f","f","i","x","=">>

(***************************************************************************)
(* strings.Split(s, ","), strings.HasPrefix, strings.TrimPrefix            *)
(***************************************************************************)
IndexOf(s, c) ==
    IF \E i \in 1..Len(s) : s[i] = c
    THEN CHOOSE i \in 1..Len(s) : s[i] = c /\ \A j \in 1..(i-1) : s[j] # c
    ELSE 0

RECURSIVE Split(_, _)
Split(s, sep) ==
    LET i == IndexOf(s, sep) IN
    IF i = 0 THEN <<s>>
    ELSE <<SubSeq(s, 1, i-1)>> \o Split(SubSeq(s, i+1, Len(s)), sep)

HasPrefix(s, p) == Len(s) >= Len(p) /\ SubSeq(s, 1, Len(p)) = p

TrimPrefix(s, p) == IF HasPrefix(s, p) THEN SubSeq(s, Len(p)+1, Len(s)) ELSE s

(***************************************************************************)
(* type Tag and parseTag                                                   *)
(***************************************************************************)
\* The zero Tag, &Tag{}.  The unexported validator and unmarshaler members
\* are never assigned anywhere and are left out.
Tag == [Name |-> Empty, Prefix |-> Empty, Suffix |-> Empty,
        Omit |-> FALSE, Ignore |-> FALSE, Group |-> FALSE]

\* switch n := parts[0]
parseTagFirst(n) ==
    IF n = TxtPlus THEN [Tag EXCEPT !.Group = TRUE]
    ELSE IF n = TxtDash THEN [Tag EXCEPT !.Ignore = TRUE]
    ELSE [Tag EXCEPT !.Name = n]

\* parseTagPart keeping the first prefix and suffix instead of the last.
parseTagPart_FirstWins(t, p) ==
    IF p = TxtOmitempty THEN [t EXCEPT !.Omit = TRUE]
    ELSE IF HasPrefix(p, TxtPrefixEq) /\ t.Prefix = Empty
    THEN [t EXCEPT !.Prefix = TrimPrefix(p, TxtPrefixEq)]
    ELSE IF HasPrefix(p, TxtSuffixEq) /\ t.Suffix = Empty
    THEN [t EXCEPT !.Suffix = TrimPrefix(p, TxtSuffixEq)]
    ELSE t

\* the body of: for _, p := range parts[1:]
parseTagPart(t, p) ==
    IF p = TxtOmitempty THEN [t EXCEPT !.Omit = TRUE]
    ELSE IF HasPrefix(p, TxtPrefixEq) THEN [t EXCEPT !.Prefix = TrimPrefix(p, TxtPrefixEq)]
    ELSE IF HasPrefix(p, TxtSuffixEq) THEN [t EXCEPT !.Suffix = TrimPrefix(p, TxtSuffixEq)]
    ELSE t

RECURSIVE parseTagLoop(_, _)
parseTagLoop(t, ps) ==
    IF ps = <<>> THEN t ELSE parseTagLoop(parseTagPart(t, Head(ps)), Tail(ps))

\* parseTag after parts := strings.Split(str, ",")
parseTagParts(parts) ==
    IF Len(parts) = 1 /\ parts[1] = Empty THEN Tag
    ELSE parseTagLoop(parseTagFirst(parts[1]), Tail(parts))

parseTag(s) == parseTagParts(Split(s, Comma))

(***************************************************************************)
(* strconv.ParseInt(s, 0, 0), strconv.ParseUint(s, 0, 0),                  *)
(* strconv.ParseFloat(s, 64), strconv.ParseBool, strings.ToLower           *)
(* as encoding.go calls them.  The texts of the model are at most a few    *)
(* characters long, so the 64-bit range check of the parsers is never      *)
(* reached; the width of the destination field is kept (SetInt, SetUint).  *)
(***************************************************************************)
Digits == <<"0","1","2","3","4","5","6","7","8","9">>
Lowers == <<"a","b","c","d","e","f","g","h","i","j","k","l","m",
            "n","o","p","q","r","s","t","u","v","w","x","y","z">>
Uppers == <<"A","B","C","D","E","F","G","H","I","J","K","L","M",
            "N","O","P","Q","R","S","T","U","V","W","X","Y","Z">>

lower(c) == LET i == IndexOf(Uppers, c) IN IF i > 0 THEN Lowers[i] ELSE c

ToLower(s) == [i \in 1..Len(s) |-> lower(s[i])]

\* The digit a byte stands for ("0" to "9", then "a" to "z" in either case);
\* 99 for a byte that is no digit in any base.
DigitAt(i) == IF i > 0 THEN i - 1 ELSE 99
DigitVal(c) == DigitAt(IndexOf(Digits \o Lowers, lower(c)))

SyntaxErr == [ok |-> FALSE, n |-> 0]

\* The number the digits ds denote in the base, most significant first.
RECURSIVE Accumulate(_, _, _)
Accumulate(ds, base, acc) ==
    IF ds = <<>> THEN [ok |-> TRUE, n |-> acc]
    ELSE IF Head(ds) >= base THEN SyntaxErr
    ELSE Accumulate(Tail(ds), base, acc * base + Head(ds))

ParseDigits(s, base, acc) ==
    Accumulate([i \in 1..Len(s) |-> DigitVal(s[i])], base, acc)

\* base 0: the prefix of the text selects the base ("0b", "0o", "0x", a
\* leading "0" for octal, else decimal) and is cut off.
ParseUint(s) ==
    IF s = <<>> THEN SyntaxErr
    ELSE LET p    == IF s[1] = "0" /\ Len(s) >= 3 /\ s[2] \in {"b", "B", "o", "O", "x", "X"}
                     THEN s[2] ELSE IF s[1] = "0" THEN "0" ELSE ""
             base == CASE p \in {"b", "B"} -> 2 [] p \in {"o", "O", "0"} -> 8
                       [] p \in {"x", "X"} -> 16 [] OTHER -> 10
             cut  == CASE p \in {"b", "B", "o", "O", "x", "X"} -> 3 [] p = "0" -> 2
                       [] OTHER -> 1
         IN ParseDigits(SubSeq(s, cut, Len(s)), base, 0)

\* The sign put back on the magnitude un.
Signed(neg, un) ==
    IF ~un.ok THEN SyntaxErr ELSE [ok |-> TRUE, n |-> IF neg THEN 0 - un.n ELSE un.n]

ParseInt(s) ==
    IF s = <<>> THEN SyntaxErr
    ELSE Signed(s[1] = "-", ParseUint(IF s[1] \in {"+", "-"} THEN Tail(s) ELSE s))

ParseBool(s) ==
    IF s \in { <<"1">>, <<"t">>, <<"T">>, <<"t","r","u","e">>,
               <<"T","R","U","E">>, <<"T","r","u","e">> }
    THEN [ok |-> TRUE, b |-> TRUE]
    ELSE IF s \in { <<"0">>, <<"f">>, <<"F">>, <<"f","a","l","s","e">>,
                    <<"F","A","L","S","E">>, <<"F","a","l","s","e">> }
    THEN [ok |-> TRUE, b |-> FALSE]
    ELSE [ok |-> FALSE, b |-> FALSE]

\* A float is <<m, e>>, the number m / 10^e with no trailing zero in the
\* fraction.  Decimal texts [sign] digits [. digits] are parsed; the texts of
\* the model carry no exponent, no hex mantissa and no inf or nan.
RECURSIVE Normal(_)
Normal(f) ==
    IF f[2] > 0 /\ f[1] % 10 = 0 THEN Normal(<<f[1] \div 10, f[2] - 1>>) ELSE f

IsDecimal(s) == \A i \in 1..Len(s) : IndexOf(Digits, s[i]) > 0

\* The float of a sign, the digits ip before the point and fp after it.
Mantissa(neg, ip, fp) ==
    IF Len(ip) + Len(fp) = 0 \/ ~IsDecimal(ip \o fp)
    THEN [ok |-> FALSE, f |-> <<0, 0>>]
    ELSE [ok |-> TRUE,
          f  |-> Normal(<< (IF neg THEN -1 ELSE 1) * ParseDigits(ip \o fp, 10, 0).n,
                           Len(fp) >>)]

\* body is the text after the sign and dot the place of its point, 0 for none.
Pointed(neg, body, dot) ==
    IF dot = 0 THEN Mantissa(neg, body, <<>>)
    ELSE Mantissa(neg, SubSeq(body, 1, dot - 1), SubSeq(body, dot + 1, Len(body)))

Unsigned(neg, body) == Pointed(neg, body, IndexOf(body, "."))

ParseFloat(s) ==
    IF s # <<>> /\ s[1] \in {"+", "-"} THEN Unsigned(s[1] = "-", Tail(s))
    ELSE Unsigned(FALSE, s)

(***************************************************************************)
(* reflect: kinds, zero values, SetInt / SetUint on a field of w bits      *)
(***************************************************************************)
Kinds == {"string", "int", "int8", "uint8", "float64", "bool",
          "[]string", "[]int", "struct"}

\* reflect.Value.SetInt: the int64 is stored truncated to the field's width
\* (8 bits for int8; an int holds every number the model's texts denote).
SetInt(kind, x) ==
    IF kind = "int8" THEN ((x + 128) % 256) - 128 ELSE x

\* reflect.Value.SetUint: the uint64 is stored truncated to the field's width.
SetUint(kind, x) ==
    IF kind = "uint8" THEN x % 256 ELSE x

Zero(kind) ==
    CASE kind = "string"   -> <<>>
      [] kind \in {"int", "int8", "uint8"} -> 0
      [] kind = "float64"  -> <<0, 0>>
      [] kind = "bool"     -> FALSE
      [] kind = "[]string" -> <<>>
      [] kind = "[]int"    -> <<>>
      [] kind = "struct"   -> "zero struct"

(***************************************************************************)
(* Errors.  A Go error value is nil, a *ValidationError, any other error,  *)
(* or the call does not return at all (a run-time panic).                  *)
(***************************************************************************)
Nil == [type |-> "nil"]

\* &ValidationError{Field: field, Message: msg}
ValidationError(field, msg) ==
    [type |-> "*ValidationError", Field |-> field, Message |-> msg]

\* errors.New(msg), fmt.Errorf(msg) and the errors of strconv
Error(msg) == [type |-> "error", msg |-> msg]

Panic(msg) == [type |-> "panic", msg |-> msg]

\* form.Invalid(field, msg)
Invalid(field, msg) == ValidationError(field, msg)

(***************************************************************************)
(* The built-in coercion: empty, assignToInt, assignToUint, assignToFloat, *)
(* assignToStructField.  Each returns the error and the field's new value. *)
(* canSet is reflect.Value.CanSet of the field: whether it is exported.    *)
(***************************************************************************)
TxtZero == <<"0">>

\* empty holding only for the list of no elements.
empty_NoElements(val) == Len(val) = 0

empty(val) == Len(val) = 0 \/ (Len(val) = 1 /\ Len(val[1]) = 0)

\* p is what the parser made of the text.
assignInt(kind, canSet, old, p) ==
    IF ~canSet THEN [err |-> Error("cannot set"), val |-> old]
    ELSE IF ~p.ok THEN [err |-> Error("strconv.ParseInt"), val |-> old]
    ELSE [err |-> Nil, val |-> SetInt(kind, p.n)]

assignToInt(kind, canSet, old, val) == assignInt(kind, canSet, old, ParseInt(val))

assignUint(kind, canSet, old, p) ==
    IF ~canSet THEN [err |-> Error("cannot set"), val |-> old]
    ELSE IF ~p.ok THEN [err |-> Error("strconv.ParseUint"), val |-> old]
    ELSE [err |-> Nil, val |-> SetUint(kind, p.n)]

assignToUint(kind, canSet, old, val) == assignUint(kind, canSet, old, ParseUint(val))

assignFloat(kind, canSet, old, p) ==
    IF ~canSet THEN [err |-> Error("cannot set"), val |-> old]
    ELSE IF ~p.ok THEN [err |-> Error("strconv.ParseFloat"), val |-> old]
    ELSE [err |-> Nil, val |-> p.f]

assignToFloat(kind, canSet, old, val) == assignFloat(kind, canSet, old, ParseFloat(val))

\* reflect.Value.Set and Interface panic on a field that cannot be set.
NotSettable(old) == [err |-> Panic("value obtained using unexported field"), val |-> old]

\* assignToStructField taking the last submitted value instead of the first.
assignToStructField_LastValue(kind, canSet, old, val) ==
    CASE kind = "string" ->
            IF Len(val) = 0 THEN [err |-> Panic("index out of range"), val |-> old]
            ELSE IF ~canSet THEN NotSettable(old)
            ELSE [err |-> Nil, val |-> val[Len(val)]]
      [] kind \in {"int", "int8"} ->
            assignToInt(kind, canSet, old, IF ~empty(val) THEN val[Len(val)] ELSE TxtZero)
      [] kind = "uint8" ->
            assignToUint(kind, canSet, old, IF ~empty(val) THEN val[Len(val)] ELSE TxtZero)
      [] kind = "float64" ->
            assignToFloat(kind, canSet, old, IF ~empty(val) THEN val[Len(val)] ELSE TxtZero)
      [] kind = "bool" ->
            IF Len(val) = 0 THEN [err |-> Panic("index out of range"), val |-> old]
            ELSE IF ~canSet THEN NotSettable(old)
            ELSE LET r == ParseBool(val[Len(val)]) IN
                 [err |-> IF r.ok THEN Nil ELSE Error("strconv.ParseBool"),
                  val |-> r.b]
      [] kind = "[]string" ->
            IF ~canSet THEN NotSettable(old) ELSE [err |-> Nil, val |-> val]
      [] kind = "[]int" ->
            IF ~canSet THEN NotSettable(old)
            ELSE [err |-> Error("Only string slices are supported."), val |-> old]
      [] OTHER -> [err |-> Error("Unsupported kind"), val |-> old]

assignToStructField(kind, canSet, old, val) ==
    CASE kind = "string" ->
            IF Len(val) = 0 THEN [err |-> Panic("index out of range"), val |-> old]
            ELSE IF ~canSet THEN NotSettable(old)
            ELSE [err |-> Nil, val |-> val[1]]
      [] kind \in {"int", "int8"} ->
            assignToInt(kind, canSet, old, IF ~empty(val) THEN val[1] ELSE TxtZero)
      [] kind = "uint8" ->
            assignToUint(kind, canSet, old, IF ~empty(val) THEN val[1] ELSE TxtZero)
      [] kind = "float64" ->
            assignToFloat(kind, canSet, old, IF ~empty(val) THEN val[1] ELSE TxtZero)
      [] kind = "bool" ->
            IF Len(val) = 0 THEN [err |-> Panic("index out of range"), val |-> old]
            ELSE IF ~canSet THEN NotSettable(old)
            ELSE LET r == ParseBool(val[1]) IN
                 [err |-> IF r.ok THEN Nil ELSE Error("strconv.ParseBool"),
                  val |-> r.b]
      [] kind = "[]string" ->
            IF ~canSet THEN NotSettable(old) ELSE [err |-> Nil, val |-> val]
      [] kind = "[]int" ->
            IF ~canSet THEN NotSettable(old)
            ELSE [err |-> Error("Only string slices are supported."), val |-> old]
      [] OTHER -> [err |-> Error("Unsupported kind"), val |-> old]

(***************************************************************************)
(* Texts of the submitted values                                           *)
(***************************************************************************)
Txt1 == <<"1">>
Txt300 == <<"3","0","0">>
TxtTrue == <<"t","r","u","e">>
TxtNeg1 == <<"-","1">>
Txt1p5 == <<"1",".","5">>
TxtFAIL == <<"F","A","I","L">>

(***************************************************************************)
(* Hooks.  A method of the struct type is its name, its body and the index *)
(* of the one field the body may assign.  The bodies are those of the test *)
(* fixture (FormValidateState, FormValidateStreet, FormSetCity) and one    *)
(* setter that reports its failure with form.Invalid.                      *)
(***************************************************************************)
FormValidate == <<"FormValidate">>
FormSet == <<"FormSet">>

\* The one state FormValidateState knows ("Illinois" in the fixture).
KnownState == Txt1

FormValidateState(r, field, vs) ==
    IF Len(vs) = 0 \/ vs[1] = Empty
    THEN [err |-> ValidationError("state", "state is required"), rec |-> r]
    ELSE IF vs[1] # KnownState
    THEN [err |-> ValidationError("state", "unknown state"), rec |-> r]
    ELSE [err |-> Nil, rec |-> r]

FormValidateStreet(r, field, vs) ==
    IF Len(vs) = 0 THEN [err |-> Panic("index out of range"), rec |-> r]
    ELSE IF vs[1] = TxtFAIL
    THEN [err |-> ValidationError("street", "street cannot be FAIL"), rec |-> r]
    ELSE [err |-> Nil, rec |-> r]

FormSetCity(r, field, vs) ==
    IF Len(vs) = 0 THEN [err |-> Error("city is required"), rec |-> r]
    ELSE [err |-> Nil, rec |-> [r EXCEPT ![field] = ToLower(vs[1])]]

\* A Setter (func(value []string) error) whose error is a *ValidationError.
FormSetInvalid(r, field, vs) ==
    IF Len(vs) = 0 \/ vs[1] = TxtFAIL
    THEN [err |-> Invalid("field", "not acceptable"), rec |-> r]
    ELSE [err |-> Nil, rec |-> [r EXCEPT ![field] = vs[1]]]

\* method.Func.Call(target, values); a nil return value is no error.
callFormMethod(m, r, values) ==
    CASE m.body = "FormValidateState"  -> FormValidateState(r, m.field, values)
      [] m.body = "FormValidateStreet" -> FormValidateStreet(r, m.field, values)
      [] m.body = "FormSetCity"        -> FormSetCity(r, m.field, values)
      [] m.body = "FormSetInvalid"     -> FormSetInvalid(r, m.field, values)

(***************************************************************************)
(* Struct types.  A field is its declared identifier, its raw `form` tag   *)
(* and its kind.  The types follow the fixtures of the tests               *)
(* (AssignmentTestStruct, FixtureAddress, ExampleForm) with one-letter     *)
(* names, and vary the tags, kinds and methods.                            *)
(***************************************************************************)
Field(name, rawtag, kind) == [Name |-> name, Tag |-> rawtag, Kind |-> kind]

Method(name, body, field) == [name |-> name, body |-> body, field |-> field]

OmitTag(name) == name \o <<Comma>> \o TxtOmitempty

StructTypes == <<
    \* 1: text and signed integer, one field untagged
    [fields  |-> << Field(<<"A">>, <<"a">>, "string"), Field(<<"B">>, Empty, "int8") >>,
     methods |-> {}],
    \* 2: unsigned integer and boolean
    [fields  |-> << Field(<<"A">>, <<"a">>, "uint8"), Field(<<"B">>, <<"b">>, "bool") >>,
     methods |-> {}],
    \* 3: float and int, the second tag names no key
    [fields  |-> << Field(<<"A">>, <<"a">>, "float64"), Field(<<"B">>, OmitTag(Empty), "int") >>,
     methods |-> {}],
    \* 4: two fields tagged with the same name
    [fields  |-> << Field(<<"A">>, <<"x">>, "string"), Field(<<"B">>, <<"x">>, "string") >>,
     methods |-> {}],
    \* 5: an ignored field and an omitempty field
    [fields  |-> << Field(<<"A">>, TxtDash, "bool"), Field(<<"B">>, OmitTag(<<"b">>), "int8") >>,
     methods |-> {}],
    \* 6: an ignored field that has a validator and a setter
    [fields  |-> << Field(<<"A">>, TxtDash, "string"), Field(<<"B">>, OmitTag(<<"b">>), "string") >>,
     methods |-> { Method(FormValidate \o <<"A">>, "FormValidateStreet", 1),
                   Method(FormSet \o <<"A">>, "FormSetCity", 1) }],
    \* 7: a text list and a nested struct marked as a group
    [fields  |-> << Field(<<"A">>, Empty, "[]string"), Field(<<"B">>, OmitTag(TxtPlus), "struct") >>,
     methods |-> {}],
    \* 8: a list that is not a text list
    [fields  |-> << Field(<<"A">>, <<"a">>, "[]int"), Field(<<"B">>, OmitTag(<<"b">>), "uint8") >>,
     methods |-> {}],
    \* 9: FixtureAddress: Street and State have validators, City has a setter
    [fields  |-> << Field(<<"S">>, <<"s">>, "string"), Field(<<"C">>, <<"c">>, "string"),
                    Field(<<"T">>, <<"t">>, "string") >>,
     methods |-> { Method(FormValidate \o <<"S">>, "FormValidateStreet", 1),
                   Method(FormSet \o <<"C">>, "FormSetCity", 2),
                   Method(FormValidate \o <<"T">>, "FormValidateState", 3) }],
    \* 10: the first field's tag is the second field's identifier
    [fields  |-> << Field(<<"A">>, <<"B">>, "string"), Field(<<"B">>, <<"x">>, "string") >>,
     methods |-> { Method(FormValidate \o <<"B">>, "FormValidateState", 2),
                   Method(FormSet \o <<"B">>, "FormSetCity", 2) }],
    \* 11: a setter that fails with form.Invalid, next to a validator
    [fields  |-> << Field(<<"A">>, <<"a">>, "string"), Field(<<"B">>, <<"b">>, "string") >>,
     methods |-> { Method(FormSet \o <<"A">>, "FormSetInvalid", 1),
                   Method(FormValidate \o <<"B">>, "FormValidateStreet", 2) }],
    \* 12: unexported fields
    [fields  |-> << Field(<<"a">>, Empty, "string"), Field(<<"b">>, <<"n">>, "int8") >>,
     methods |-> {}]
>>

NumField(t) == Len(t.fields)

\* A field of a struct reached through a pointer can be set when it is
\* exported, that is, when its identifier starts with an upper-case letter.
CanSet(f) == IndexOf(Uppers, f.Name[1]) > 0

\* reflect.Type.MethodByName: the method and whether it exists
HasMethod(t, name) == \E m \in t.methods : m.name = name
MethodByName(t, name) == CHOOSE m \in t.methods : m.name = name

\* The tag of field i as assignToStruct and Tags resolve it: an empty name
\* defaults to the field's identifier unless the field is ignored.
DefaultName(tg, name) ==
    IF ~tg.Ignore /\ tg.Name = Empty THEN [tg EXCEPT !.Name = name] ELSE tg

ResolvedTag(f) == DefaultName(parseTag(f.Tag), f.Name)

\* Tags(o)
Tags(t) == [i \in 1..NumField(t) |-> ResolvedTag(t.fields[i])]

(***************************************************************************)
(* assignToStruct: the first field whose tag name equals the key is        *)
(* validated, then set by its setter or by coercion.  Returns the error,   *)
(* the struct and the calls made.                                          *)
(***************************************************************************)
Call(op, field, method, err) == [op |-> op, field |-> field, method |-> method, err |-> err]

\* The tag names of the fields as the loop computes them.
TagNames(t) == [i \in 1..NumField(t) |-> ResolvedTag(t.fields[i]).Name]

\* MatchField running on to the last field whose tag name equals the key.
Last(I) == IF I = {} THEN 0 ELSE CHOOSE i \in I : \A j \in I : j <= i
MatchField_LastMatch(t, key) ==
    Last({ i \in 1..NumField(t) : TagNames(t)[i] = key })

\* The index of the field the loop stops at, 0 when it runs to the end.
First(I) == IF I = {} THEN 0 ELSE CHOOSE i \in I : \A j \in I : i <= j
MatchField(t, key) ==
    First({ i \in 1..NumField(t) : TagNames(t)[i] = key })

\* validatorName built from the name of the tag instead of the identifier.
validatorName_ByTagName(f) == FormValidate \o ResolvedTag(f).Name

\* The names the hooks of a matched field are looked up by.
validatorName(f) == FormValidate \o f.Name
setterName(f) == FormSet \o f.Name

\* The else branch: the error a of assignToStructField is logged and
\* dropped; only a panic leaves the function.
dropError(f, i, r, a) ==
    [err   |-> IF a.err.type = "panic" THEN a.err ELSE Nil,
     rec   |-> [r EXCEPT ![i] = a.val],
     calls |-> << Call("coerce", f.Name, Empty, a.err) >>]

assignRaw(f, i, r, values) ==
    dropError(f, i, r, assignToStructField(f.Kind, CanSet(f), r[i], values))

\* The method m has returned c: its error, the struct and the call made.
hookReturn(op, f, m, c) ==
    [err |-> c.err, rec |-> c.rec, calls |-> << Call(op, f.Name, m.name, c.err) >>]

callHook(op, f, m, r, values) == hookReturn(op, f, m, callFormMethod(m, r, values))

\* if m, ok := ptrt.MethodByName(validator); ok { ... }
validateField(t, f, r, values) ==
    IF HasMethod(t, validatorName(f))
    THEN callHook("validate", f, MethodByName(t, validatorName(f)), r, values)
    ELSE [err |-> Nil, rec |-> r, calls |-> <<>>]

\* if m, ok := ptrt.MethodByName(setter); ok { ... } else { ... }
assignField(t, f, i, r, values) ==
    IF HasMethod(t, setterName(f))
    THEN callHook("set", f, MethodByName(t, setterName(f)), r, values)
    ELSE assignRaw(f, i, r, values)

\* The calls of the validation put before those of the assignment a.
afterCalls(cs, a) == [a EXCEPT !.calls = cs \o a.calls]

\* The matched field after its validation returned vr: an error of the
\* validator is returned at once, otherwise the field is assigned.
validated(t, f, i, vr, values) ==
    IF vr.err # Nil THEN vr
    ELSE afterCalls(vr.calls, assignField(t, f, i, vr.rec, values))

\* The loop has stopped at field i, or run to the end with i = 0.
assignAt(t, r, i, values) ==
    IF i = 0 THEN [err |-> Nil, rec |-> r, calls |-> <<>>]
    ELSE validated(t, t.fields[i], i, validateField(t, t.fields[i], r, values), values)

assignToStruct(t, r, key, values) == assignAt(t, r, MatchField(t, key), values)

(***************************************************************************)
(* findIn: dispatch on the kind of what the receiver points to             *)
(***************************************************************************)
\* reflect.Indirect(rv).Kind()
IndirectKind(rv) == IF rv.Kind = "ptr" THEN rv.Elem ELSE rv.Kind

CannotStore == Error("object cannot be used to store values")

\* assignToMap on the map m (a function from keys to what is stored): one
\* value is stored as a text, several as the list, none leaves the map alone.
\* Storing a list in a map whose elements are texts panics inside SetMapIndex;
\* the deferred recover assigns err after the return value was taken, so the
\* map is left alone and nil is returned all the same.
assignToMap(m, dynamic, key, values) ==
    IF Len(values) = 1
    THEN [k \in DOMAIN m \cup {key} |-> IF k = key THEN values[1] ELSE m[k]]
    ELSE IF Len(values) > 1 /\ dynamic
    THEN [k \in DOMAIN m \cup {key} |-> IF k = key THEN values ELSE m[k]]
    ELSE m

\* The Map case asserts rv.Interface() to map[string]interface{}: that holds
\* when rv is the map itself and fails when rv is a pointer to it, and then
\* the case falls through to the error.
findIn(rv, t, r, key, values) ==
    IF IndirectKind(rv) = "struct" THEN assignToStruct(t, r, key, values)
    ELSE IF IndirectKind(rv) = "map" /\ rv.Kind = "map"
    THEN [err |-> Nil, rec |-> assignToMap(r, TRUE, key, values), calls |-> <<>>]
    ELSE [err |-> CannotStore, rec |-> r, calls |-> <<>>]

(***************************************************************************)
(* Inputs of Unmarshal                                                     *)
(***************************************************************************)
\* Receivers: what reflect.ValueOf(o) is.  Elem is what a pointer points to.
Target(kind, isNil, elem) == [Kind |-> kind, IsNil |-> isNil, Elem |-> elem]

PtrToStruct == Target("ptr", FALSE, "struct")

OtherTargets == { Target("ptr", TRUE, "struct"),
                  Target("struct", FALSE, "none"),
                  Target("map", FALSE, "none"),
                  Target("ptr", FALSE, "int"),
                  Target("ptr", FALSE, "map") }

\* Value lists a key is submitted with.
ValueLists == { <<>>, <<Empty>>, <<Txt1>>, <<Txt300>>, <<TxtNeg1>>, <<Txt1p5>>,
                <<TxtTrue>>, <<TxtFAIL>>, <<Txt1, TxtFAIL>>, <<Empty, Txt1>> }

\* A key no field of any struct type resolves to.
TxtUnknown == <<"z","z">>

\* Keys tried against a struct type: the names its fields resolve to, the
\* empty key and an unknown key.
KeysOf(t) == { TagNames(t)[i] : i \in 1..NumField(t) } \cup {Empty, TxtUnknown}

OtherKeys == { <<"a">>, TxtUnknown }

\* Every url.Values of at most MaxKeys keys over K.
Mappings(K) ==
    UNION { [D -> ValueLists] : D \in { X \in SUBSET K : Cardinality(X) <= MaxKeys } }

\* A value of the kind that is not its zero value.
TxtOld == <<"o","l","d">>

Preset(kind) ==
    CASE kind = "string"   -> TxtOld
      [] kind \in {"int", "int8", "uint8"} -> 5
      [] kind = "float64"  -> <<25, 1>>
      [] kind = "bool"     -> TRUE
      [] kind = "[]string" -> <<TxtOld>>
      [] kind = "[]int"    -> <<5>>
      [] kind = "struct"   -> "set struct"

ZeroRec(t) == [i \in 1..NumField(t) |-> Zero(t.fields[i].Kind)]
PresetRec(t) == [i \in 1..NumField(t) |-> Preset(t.fields[i].Kind)]

NoResult == [type |-> "none"]
NoTag == [none |-> TRUE]

\* CompoundValidationError{errs: verrs}
CompoundValidationError(errs) == [type |-> "CompoundValidationError", errs |-> errs]

\* The struct type of the receiver.
T == StructTypes[rt]

(***************************************************************************)
(* Unmarshal and walk.  The range over v visits the keys in any order, one *)
(* key per step.                                                           *)
(***************************************************************************)
TagIdle == str = Empty /\ segs = <<>> /\ tag = NoTag

Init ==
    /\ \/ /\ o = PtrToStruct
          /\ rt \in 1..Len(StructTypes)
          /\ rec \in { ZeroRec(StructTypes[rt]), PresetRec(StructTypes[rt]) }
          /\ v \in Mappings(KeysOf(StructTypes[rt]))
       \/ /\ o \in OtherTargets
          /\ rt = 0
          /\ rec = <<>>
          /\ v \in Mappings(OtherKeys)
    /\ rec0 = rec
    /\ pending = DOMAIN v
    /\ verrs = <<>>
    /\ calls = [k \in DOMAIN v |-> <<>>]
    /\ result = NoResult
    /\ pc = "call"
    /\ TagIdle

\* Unmarshal up to the call of walk
UnmarshalCall ==
    /\ pc = "call"
    /\ IF o.Kind # "ptr" \/ o.IsNil
       THEN /\ result' = Error("unmarshal requires a pointer to a receiver")
            /\ pc' = "done"
       ELSE /\ result' = result
            /\ pc' = "walk"
    /\ UNCHANGED <<o, rt, rec, rec0, v, pending, verrs, calls>>
    /\ UNCHANGED tagVars

\* The body of the loop of walk for a key whose findIn returned e
WalkKey(key, e) ==
    /\ pending' = pending \ {key}
    /\ rec' = e.rec
    /\ calls' = [calls EXCEPT ![key] = e.calls]
    /\ IF e.err = Nil
       THEN UNCHANGED <<verrs, result, pc>>
       ELSE IF e.err.type = "*ValidationError"
       THEN /\ verrs' = Append(verrs, e.err)
            /\ UNCHANGED <<result, pc>>
       ELSE /\ result' = e.err
            /\ pc' = "done"
            /\ UNCHANGED verrs

\* One iteration of the loop of walk
WalkNext ==
    /\ pc = "walk"
    /\ \E key \in pending : WalkKey(key, findIn(o, T, rec, key, v[key]))
    /\ UNCHANGED <<o, rt, rec0, v>>
    /\ UNCHANGED tagVars

\* The end of walk: the loop has visited every key
WalkReturn ==
    /\ pc = "walk"
    /\ pending = {}
    /\ result' = IF Len(verrs) > 0 THEN CompoundValidationError(verrs) ELSE Nil
    /\ pc' = "done"
    /\ UNCHANGED <<o, rt, rec, rec0, v, pending, verrs, calls>>
    /\ UNCHANGED tagVars

Next == UnmarshalCall \/ WalkNext \/ WalkReturn

Spec == Init /\ [][Next]_vars

(***************************************************************************)
(* parseTag on its own: a raw tag written from up to MaxSegs segments      *)
(***************************************************************************)
TagSegments == { Empty, TxtDash, TxtPlus, <<"n">>, <<"z">>, TxtOmitempty,
                 TxtPrefixEq, TxtPrefixEq \o <<"p">>, TxtPrefixEq \o <<"q">>,
                 TxtSuffixEq \o <<"s">> }

\* strings.Join(ss, ",")
RECURSIVE Join(_, _)
Join(ss, sep) ==
    IF Len(ss) = 0 THEN Empty
    ELSE IF Len(ss) = 1 THEN ss[1]
    ELSE ss[1] \o <<sep>> \o Join(Tail(ss), sep)

DecIdle ==
    /\ o = Target("none", FALSE, "none") /\ rt = 0 /\ rec = <<>> /\ rec0 = <<>> /\ v = <<>>
    /\ pending = {} /\ verrs = <<>> /\ calls = <<>> /\ result = NoResult
    /\ pc = "idle"

InitTag ==
    /\ segs \in UNION { [1..n -> TagSegments] : n \in 1..MaxSegs }
    /\ str = Join(segs, Comma)
    /\ tag = NoTag
    /\ DecIdle

ParseTagCall ==
    /\ tag = NoTag
    /\ tag' = parseTag(str)
    /\ UNCHANGED <<str, segs>>
    /\ UNCHANGED decVars

NextTag == ParseTagCall

SpecTag == InitTag /\ [][NextTag]_vars

(***************************************************************************)
(* C8  parseTag                                                            *)
(***************************************************************************)
\* The descriptor the tag syntax prescribes for a tag written as the
\* segments ss: the first segment is the marker or the name, every later
\* segment sets its own member, and of two segments setting the same member
\* the later one counts.
SetsMember(seg, p) == Len(seg) >= Len(p) /\ \A i \in 1..Len(p) : seg[i] = p[i]

LastSetting(ss, p) ==
    LET I == { i \in 2..Len(ss) : SetsMember(ss[i], p) } IN
    IF I = {} THEN Empty
    ELSE LET i == CHOOSE j \in I : \A k \in I : k <= j IN
         [n \in 1..(Len(ss[i]) - Len(p)) |-> ss[i][n + Len(p)]]

Descriptor(ss) ==
    [Name   |-> IF ss[1] \in {TxtDash, TxtPlus} THEN Empty ELSE ss[1],
     Ignore |-> ss[1] = TxtDash,
     Group  |-> ss[1] = TxtPlus,
     Omit   |-> \E i \in 2..Len(ss) : ss[i] = TxtOmitempty,
     Prefix |-> LastSetting(ss, TxtPrefixEq),
     Suffix |-> LastSetting(ss, TxtSuffixEq)]

\* C8: for every raw tag, parseTag returns a descriptor, and it is the one
\* the tag syntax defines: the first segment gives ignore ("-"), group ("+")
\* or the name, each later segment sets omit, prefix or suffix whatever the
\* order, the last duplicate wins, unrecognized segments change nothing, the
\* empty string gives the zero descriptor, and ignore and group never both hold.
C8_ParseTagDescriptor ==
    tag # NoTag =>
        /\ tag = Descriptor(segs)
        /\ ~(tag.Ignore /\ tag.Group)
        /\ (str = Empty => tag = Tag)

\* parseTag has returned for a tag with two prefix segments and an
\* unrecognized one in between; the later prefix is the one kept.
C8_Witness ==
    /\ tag # NoTag
    /\ Len(segs) >= 3
    /\ segs[2] = TxtPrefixEq \o <<"p">>
    /\ segs[Len(segs)] = TxtPrefixEq \o <<"q">>
    /\ tag.Prefix = <<"q">>

(***************************************************************************)
(* Vocabulary of the claims about Unmarshal, stated from the tag syntax    *)
(* and the submitted texts rather than through the functions above.        *)
(***************************************************************************)
\* The text of a raw tag before its first comma.
FirstSegment(raw) ==
    LET C == { i \in 1..Len(raw) : raw[i] = Comma }
        n == IF C = {} THEN Len(raw) ELSE (CHOOSE i \in C : \A j \in C : i <= j) - 1
    IN [i \in 1..n |-> raw[i]]

IsIgnored(f) == FirstSegment(f.Tag) = TxtDash

HasOmitempty(f) ==
    \E i \in 1..Len(f.Tag) :
        /\ f.Tag[i] = Comma
        /\ Len(f.Tag) >= i + Len(TxtOmitempty)
        /\ \A n \in 1..Len(TxtOmitempty) : f.Tag[i + n] = TxtOmitempty[n]
        /\ (Len(f.Tag) = i + Len(TxtOmitempty) \/ f.Tag[i + Len(TxtOmitempty) + 1] = Comma)

\* The key a field that is not ignored answers to.
KeyName(f) ==
    IF FirstSegment(f.Tag) \in {Empty, TxtPlus} THEN f.Name ELSE FirstSegment(f.Tag)

Fields == IF o = PtrToStruct THEN 1..NumField(T) ELSE {}

Answering == { i \in Fields : ~IsIgnored(T.fields[i]) }

\* The field a key resolves to: the first in declaration order that answers
\* to it, 0 if there is none.
FieldOf(key) ==
    LET I == { i \in Answering : KeyName(T.fields[i]) = key } IN
    IF I = {} THEN 0 ELSE CHOOSE i \in I : \A j \in I : i <= j

\* The name of a field's resolved descriptor: the key it answers to, and the
\* empty text for an ignored field.
ResolvedName(f) == IF IsIgnored(f) THEN Empty ELSE KeyName(f)

\* The field whose resolved descriptor name equals the key, the first in
\* declaration order, 0 if there is none.
Stopped(key) ==
    LET I == { i \in Fields : ResolvedName(T.fields[i]) = key }
    IN IF I = {} THEN 0 ELSE CHOOSE i \in I : \A j \in I : i <= j

Visited == DOMAIN v \ pending

OpsOf(key, ops) == { n \in 1..Len(calls[key]) : calls[key][n].op \in ops }

\* The keys whose validator reported a failure.
ValidatorFailed ==
    { k \in Visited : \E n \in OpsOf(k, {"validate"}) :
                         calls[k][n].err.type = "*ValidationError" }

\* Unmarshal returned to its caller (it did not end in a run-time panic).
Returned == pc = "done" /\ result.type \in {"nil", "CompoundValidationError", "error"}

Fatal == result.type = "error"

\* The numbers, floats and booleans the submitted texts denote.
IntLiterals == {Txt1, Txt300, TxtNeg1}
IntDenoted(t) == CASE t = Txt1 -> 1 [] t = Txt300 -> 300 [] t = TxtNeg1 -> 0 - 1
FloatLiterals == {Txt1, Txt300, TxtNeg1, Txt1p5}
FloatDenoted(t) ==
    CASE t = Txt1 -> <<1, 0>> [] t = Txt300 -> <<300, 0>>
      [] t = TxtNeg1 -> <<0 - 1, 0>> [] t = Txt1p5 -> <<15, 1>>
BoolLiterals == {Txt1, TxtTrue}

ScalarKinds == {"string", "int", "int8", "uint8", "float64", "bool"}

InRange(kind, n) ==
    CASE kind = "int8"  -> n >= 0 - 128 /\ n <= 127
      [] kind = "uint8" -> n >= 0 /\ n <= 255
      [] OTHER -> TRUE

\* A value list whose first text is a literal of the field's kind and range.
WellFormed(kind, vals) ==
    /\ Len(vals) >= 1
    /\ CASE kind = "string"  -> TRUE
         [] kind \in {"int", "int8", "uint8"} ->
                vals[1] \in IntLiterals /\ InRange(kind, IntDenoted(vals[1]))
         [] kind = "float64" -> vals[1] \in FloatLiterals
         [] kind = "bool"    -> vals[1] \in BoolLiterals
         [] OTHER -> FALSE

ParsedValue(kind, vals) ==
    CASE kind = "string"  -> vals[1]
      [] kind \in {"int", "int8", "uint8"} -> IntDenoted(vals[1])
      [] kind = "float64" -> FloatDenoted(vals[1])
      [] kind = "bool"    -> TRUE

(***************************************************************************)
(* C1  scalar fields, no hooks, exactly the resolved keys                  *)
(***************************************************************************)
\* The case of C1: a struct of scalar fields without hooks, and a mapping of
\* exactly the keys its fields answer to, each with a well-formed value.
C1_Case ==
    /\ o = PtrToStruct
    /\ T.methods = {}
    /\ \A i \in Fields : T.fields[i].Kind \in ScalarKinds
    /\ DOMAIN v = { KeyName(T.fields[i]) : i \in Answering }
    /\ \A i \in Answering : WellFormed(T.fields[i].Kind, v[KeyName(T.fields[i])])

C1_Outcome ==
    /\ result = Nil
    /\ \A i \in Answering :
          rec[i] = ParsedValue(T.fields[i].Kind, v[KeyName(T.fields[i])])

\* C1 as claimed: in that case Unmarshal returns success and every field
\* equals the parsed value of its key.
C1_Original == (pc = "done" /\ C1_Case) => C1_Outcome

\* C1 amended: the same, for structs whose fields are exported and answer to
\* pairwise distinct keys.
C1_DistinctExported ==
    ( /\ pc = "done"
      /\ C1_Case
      /\ \A i \in Fields : IndexOf(Uppers, T.fields[i].Name[1]) > 0
      /\ \A i, j \in Answering :
            i # j => KeyName(T.fields[i]) # KeyName(T.fields[j]) )
    => C1_Outcome

\* Unmarshal has returned for struct type 1 with a list of two texts for the
\* text field and a negative number for the untagged int8 field.
C1_Witness ==
    /\ pc = "done" /\ C1_Case /\ rt = 1
    /\ v[<<"a">>] = <<Txt1, TxtFAIL>> /\ v[<<"B">>] = <<TxtNeg1>>
    /\ rec0 = PresetRec(T)
    /\ rec = <<Txt1, 0 - 1>>
    /\ result = Nil

(***************************************************************************)
(* C2  validator failures are collected                                    *)
(***************************************************************************)
\* C2: a key whose validator failed has no setter or coercion call and its
\* field keeps its value; once every key is processed without a fatal error
\* the result is a CompoundValidationError with exactly one entry per key
\* whose validator failed; the keys that passed their validator are assigned.
C2_ValidatorFailuresCollected ==
    /\ \A k \in ValidatorFailed :
          /\ OpsOf(k, {"set", "coerce"}) = {}
          /\ rec[Stopped(k)] = rec0[Stopped(k)]
    /\ (pc = "done" /\ pending = {} /\ ValidatorFailed # {} /\ Returned /\ ~Fatal)
          => /\ result.type = "CompoundValidationError"
             /\ Len(result.errs) = Cardinality(ValidatorFailed)
             /\ \A k \in Visited \ ValidatorFailed :
                   Stopped(k) # 0 => OpsOf(k, {"set", "coerce"}) # {}

(***************************************************************************)
(* C3  a setter's error is fatal                                           *)
(***************************************************************************)
SetterFailed ==
    { k \in Visited : \E n \in OpsOf(k, {"set"}) : calls[k][n].err # Nil }

\* C3: once a setter has returned a non-nil error, Unmarshal has returned,
\* and what it returned is that very error, not a CompoundValidationError.
C3_SetterErrorFatal ==
    \A k \in SetterFailed :
        /\ pc = "done"
        /\ \E n \in OpsOf(k, {"set"}) : result = calls[k][n].err
        /\ result.type # "CompoundValidationError"

(***************************************************************************)
(* C4  a coercion failure is fatal                                         *)
(***************************************************************************)
CoercionFailed ==
    { k \in Visited : \E n \in OpsOf(k, {"coerce"}) : calls[k][n].err.type = "error" }

\* C4: once the built-in coercion has failed for a key, Unmarshal has
\* returned, and it returned a fatal error, never success and never a
\* CompoundValidationError.
C4_CoercionErrorFatal ==
    CoercionFailed # {} => pc = "done" /\ Fatal

(***************************************************************************)
(* C5  a receiver that cannot store values                                 *)
(***************************************************************************)
\* A pointer to a struct or to a string-keyed map is a destination; anything
\* else is not.
Supported == o = PtrToStruct \/ o = Target("ptr", FALSE, "map")

\* C5: with a receiver that is no destination, whatever the mapping, Unmarshal
\* returns a fatal error, and no key has had a hook or a coercion run.
C5_BadReceiverFatal ==
    (pc = "done" /\ ~Supported) =>
        /\ Fatal
        /\ \A k \in DOMAIN v : calls[k] = <<>>

(***************************************************************************)
(* C6  ignored fields                                                      *)
(***************************************************************************)
\* C6: a field tagged "-" is never assigned and no hook or coercion is ever
\* called for it, whatever the keys of the mapping, the empty key included.
C6_IgnoredUntouched ==
    \A i \in Fields : IsIgnored(T.fields[i]) =>
        /\ rec[i] = rec0[i]
        /\ \A k \in DOMAIN v : \A n \in 1..Len(calls[k]) :
              calls[k][n].field # T.fields[i].Name

C9_OmitemptyKeepsValue ==
    \A i \in Answering :
        LET f == T.fields[i] IN
        ( /\ HasOmitempty(f)
          /\ KeyName(f) \in Visited
          /\ FieldOf(KeyName(f)) = i
          /\ v[KeyName(f)] \in { <<>>, <<Empty>> } )
        => rec[i] = rec0[i]

(***************************************************************************)
(* C10  validator, then setter or coercion, named by the identifier        *)
(***************************************************************************)
HasHook(prefix, f) == \E m \in T.methods : m.name = prefix \o f.Name

\* C10: for a visited key that matched field F, every call made is for F and
\* every hook called is FormValidateF or FormSetF; the validator, if the type
\* has one, is the first call and the only validation; if it fails nothing
\* is assigned, otherwise exactly one assignment follows: the setter if the
\* type has one (and then no coercion), else the coercion.
C10_HookOrder ==
    \A k \in Visited : Stopped(k) # 0 =>
        LET f  == T.fields[Stopped(k)]
            cs == calls[k]
            V  == OpsOf(k, {"validate"})
            A  == OpsOf(k, {"set", "coerce"})
        IN /\ \A n \in 1..Len(cs) :
                 /\ cs[n].field = f.Name
                 /\ cs[n].op = "validate" => cs[n].method = FormValidate \o f.Name
                 /\ cs[n].op = "set" => cs[n].method = FormSet \o f.Name
           /\ V = (IF HasHook(FormValidate, f) THEN {1} ELSE {})
           /\ \A n \in A : \A m \in V : m < n
           /\ IF \E n \in V : cs[n].err # Nil
              THEN A = {}
              ELSE /\ Cardinality(A) = 1
                   /\ \A n \in A :
                         cs[n].op = (IF HasHook(FormSet, f) THEN "set" ELSE "coerce")

\* A visited key matched a field whose validator passed and whose setter ran.
C10_Witness ==
    \E k \in Visited :
        /\ Stopped(k) # 0
        /\ Len(calls[k]) = 2
        /\ calls[k][1].op = "validate" /\ calls[k][1].err = Nil
        /\ calls[k][2].op = "set" /\ calls[k][2].err = Nil
        /\ KeyName(T.fields[Stopped(k)]) # T.fields[Stopped(k)].Name
        /\ rec[Stopped(k)] # rec0[Stopped(k)]

(***************************************************************************)
(* Vocabulary of the claims about the built-in coercion                    *)
(***************************************************************************)
NoHooks(f) == ~HasHook(FormValidate, f) /\ ~HasHook(FormSet, f)

Exported(f) == f.Name[1] \in { Uppers[n] : n \in 1..Len(Uppers) }

\* The visited keys that matched a field of one of the kinds and were handed
\* to the built-in coercion, the field having no hooks.
Coerced(kinds) ==
    { k \in Visited : /\ Stopped(k) # 0
                      /\ T.fields[Stopped(k)].Kind \in kinds
                      /\ NoHooks(T.fields[Stopped(k)]) }

\* What the coercion returned for such a key.
CoerceErr(k) == calls[k][Len(calls[k])].err

IntKinds == {"int", "int8", "uint8"}

(***************************************************************************)
(* C11  no value at all for a text or boolean field                        *)
(***************************************************************************)
\* C11: when a key submitted with a list of no elements reaches the coercion
\* of a text or boolean field without hooks, the coercion returns an error
\* (it does not crash on the absent first element) and Unmarshal returns a
\* fatal error.
C11_EmptyListDefinedError ==
    \A k \in Coerced({"string", "bool"}) :
        v[k] = <<>> =>
            /\ CoerceErr(k).type = "error"
            /\ pc = "done"
            /\ Fatal

(***************************************************************************)
(* C12  integer fields: no value is "0"                                    *)
(***************************************************************************)
\* A literal of a number the field's kind can hold.
Fits(kind, t) == t \in IntLiterals /\ InRange(kind, IntDenoted(t))

\* The keys coerced into an exported integer field without hooks.
IntCoerced == { k \in Coerced(IntKinds) : Exported(T.fields[Stopped(k)]) }

C12_Literal(k) ==
    (Len(v[k]) >= 1 /\ Fits(T.fields[Stopped(k)].Kind, v[k][1]))
        => CoerceErr(k) = Nil /\ rec[Stopped(k)] = IntDenoted(v[k][1])

\* C12 as claimed: a list of no elements, and every list whose first element
\* is the empty text, sets the field to 0 without an error; a list whose
\* first element is a literal sets the field to the number it denotes.
C12_Original ==
    \A k \in IntCoerced :
        /\ (v[k] = <<>> \/ (Len(v[k]) >= 1 /\ v[k][1] = Empty))
              => CoerceErr(k) = Nil /\ rec[Stopped(k)] = 0
        /\ C12_Literal(k)

\* C12 amended: the list of no elements and the list of the empty text alone
\* set the field to 0 without an error; a list whose first element is a
\* literal sets the field to the number it denotes; a longer list whose first
\* element is the empty text is parsed as the empty text, which fails and
\* leaves the field as it was.
C12_BlankMeansZero ==
    \A k \in IntCoerced :
        /\ v[k] \in { <<>>, <<Empty>> }
              => CoerceErr(k) = Nil /\ rec[Stopped(k)] = 0
        /\ C12_Literal(k)
        /\ (Len(v[k]) >= 2 /\ v[k][1] = Empty)
              => CoerceErr(k).type = "error" /\ rec[Stopped(k)] = rec0[Stopped(k)]

\* Unmarshal has returned for struct type 3 with the int field submitted as
\* the empty text followed by "1" and the float field with no element: the
\* int field kept its earlier value, the float field is 0.
C12_Witness ==
    /\ pc = "done" /\ rt = 3
    /\ DOMAIN v = {<<"a">>, <<"B">>}
    /\ v[<<"B">>] = <<Empty, Txt1>> /\ v[<<"a">>] = <<>>
    /\ rec0 = PresetRec(T)
    /\ <<"B">> \in IntCoerced
    /\ CoerceErr(<<"B">>).type = "error"
    /\ rec[2] = rec0[2]

\* An int8 field submitted with the empty text alone has been set to 0.
C12_WitnessZero ==
    \E k \in IntCoerced :
        /\ v[k] = <<Empty>> /\ rec0[Stopped(k)] = 5 /\ rec[Stopped(k)] = 0
        /\ CoerceErr(k) = Nil

(***************************************************************************)
(* C13  a string-keyed dynamic map as destination                          *)
(***************************************************************************)
PtrToMap == Target("ptr", FALSE, "map")

\* C13: with a pointer to a map[string]interface{} Unmarshal does not return
\* the "cannot be used to store values" error, and every key it has visited
\* is stored: the single text for one value, the whole list for several,
\* and nothing for none.
C13_MapDestination ==
    o = PtrToMap =>
        /\ result # CannotStore
        /\ \A k \in Visited :
              /\ Len(v[k]) = 1 => k \in DOMAIN rec /\ rec[k] = v[k][1]
              /\ Len(v[k]) > 1 => k \in DOMAIN rec /\ rec[k] = v[k]
              /\ Len(v[k]) = 0 => k \notin DOMAIN rec

(***************************************************************************)
(* C14  the order of the keys                                              *)
(***************************************************************************)
\* What Unmarshal returned, as a kind.
ResultKind(res) == res.type

\* The validation errors a result carries, as a set.
ErrorSet(res) ==
    IF res.type = "CompoundValidationError"
    THEN { res.errs[n] : n \in 1..Len(res.errs) } ELSE {}

\* The outcome of walk when the keys of S are visited in one fixed order
\* (the order CHOOSE fixes), starting from the struct r with the validation
\* errors es collected so far.
RECURSIVE WalkInOrder(_, _, _)
WalkInOrder(S, r, es) ==
    IF S = {}
    THEN [rec |-> r, res |-> IF Len(es) > 0 THEN CompoundValidationError(es) ELSE Nil]
    ELSE LET k == CHOOSE x \in S : TRUE
             e == findIn(o, T, r, k, v[k])
         IN IF e.err = Nil THEN WalkInOrder(S \ {k}, e.rec, es)
            ELSE IF e.err.type = "*ValidationError"
            THEN WalkInOrder(S \ {k}, e.rec, Append(es, e.err))
            ELSE [rec |-> e.rec, res |-> e.err]

\* The hooks of the field a key matches, run on the key's values.
HookErrs(k, prefix) ==
    LET f == T.fields[Stopped(k)] IN
    IF Stopped(k) = 0 \/ ~HasHook(prefix, f) THEN {}
    ELSE { callFormMethod(MethodByName(T, prefix \o f.Name), rec0, v[k]).err }

\* The mappings C14 speaks of: no setter returns an error.  No hook crashes
\* either, and every field is exported, so that a crash can only come from
\* the built-in coercion of a field that can be set.
C14_Case ==
    /\ o = PtrToStruct
    /\ \A i \in Fields : Exported(T.fields[i])
    /\ \A k \in DOMAIN v :
          /\ HookErrs(k, FormSet) \subseteq {Nil}
          /\ \A e \in HookErrs(k, FormValidate) : e.type # "panic"

\* C14: whatever the order in which walk visited the keys, the final struct,
\* the kind of the result and the set of validation errors are those of the
\* one fixed order.
C14_OrderIndependent ==
    (pc = "done" /\ C14_Case) =>
        /\ rec = WalkInOrder(DOMAIN v, rec0, <<>>).rec
        /\ ResultKind(result) = ResultKind(WalkInOrder(DOMAIN v, rec0, <<>>).res)
        /\ ErrorSet(result) = ErrorSet(WalkInOrder(DOMAIN v, rec0, <<>>).res)

\* The same for the mappings in which no text or boolean field without hooks
\* is submitted with a list of no elements.
C14_WhenNoCrash ==
    (\A k \in DOMAIN v :
        (Stopped(k) # 0 /\ T.fields[Stopped(k)].Kind \in {"string", "bool"}
            /\ NoHooks(T.fields[Stopped(k)])) => v[k] # <<>>)
    => C14_OrderIndependent

(***************************************************************************)
(* C15  the width of an integer field                                      *)
(***************************************************************************)
\* C15: an integer field that was coerced from a literal holds the number
\* the literal denotes, or the literal was rejected and the field holds what
\* it held before; a literal outside the range of the field is rejected.
C15_NoTruncation ==
    \A k \in IntCoerced :
        (Len(v[k]) >= 1 /\ v[k][1] \in IntLiterals) =>
            /\ \/ rec[Stopped(k)] = IntDenoted(v[k][1])
               \/ CoerceErr(k).type = "error" /\ rec[Stopped(k)] = rec0[Stopped(k)]
            /\ ~InRange(T.fields[Stopped(k)].Kind, IntDenoted(v[k][1]))
                  => CoerceErr(k).type = "error"

(***************************************************************************)
(* C16  a failed coercion leaves the field alone                           *)
(***************************************************************************)
\* C16: for a key whose coercion returned an error, the field of any kind,
\* boolean included, holds the value it held before the call.
C16_FailureKeepsField ==
    \A k \in Coerced(Kinds) :
        CoerceErr(k).type = "error" => rec[Stopped(k)] = rec0[Stopped(k)]

====
